---------------------------- MODULE Spec2Model ----------------------------
(***************************************************************************)
(* The thread pool of src/threadpool.cpp: safe_queue (a std::queue behind  *)
(* a shared_mutex), ThreadPool::worker::operator() (the worker loop),      *)
(* ThreadPool::submit and ThreadPool::~ThreadPool.                         *)
(*                                                                         *)
(* Threads are the workers 1..Cardinality(threads) and two client threads: *)
(* Main, which owns the pool and runs its destructor, and Other, which     *)
(* only submits.  Every step below is one lock operation, one access to    *)
(* shared data or one condition-variable operation of the source.          *)
(***************************************************************************)
EXTENDS Integers, Sequences, FiniteSets, TLC

\* The most workers a pool is constructed with (ThreadPool(int n)).
MaxWorkers == 2
\* The most jobs the clients submit (the destructor's sentinel is extra).
MaxJobs == 1
\* The pool size and the number of jobs of the barrier scenario.
ParWorkers == 4

Main  == <<"client", 0>>
Other == <<"client", 1>>
Clients == {Main, Other}
Worker(i) == <<"worker", i>>
NoThread == <<"none", 0>>
NoJob == 0

JobIds == 1..((IF MaxJobs > ParWorkers THEN MaxJobs ELSE ParWorkers) + 1)

VARIABLES
    threads,       \* ThreadPool::threads: the worker indices 1..n
    is_shut_down,  \* ThreadPool::is_shut_down
    q,             \* safe_queue::q, a sequence of job ids, head first
    q_m_unique,    \* the thread holding safe_queue::_m exclusively (unique_lock)
    q_m_shared,    \* the threads holding safe_queue::_m shared (shared_lock)
    pool_m,        \* the thread holding ThreadPool::_m
    cv,            \* the workers blocked inside ThreadPool::cv.wait
    wpc,           \* each worker's position in worker::operator()
    func,          \* each worker's local `func`: the popped job, or NoJob
    flag,          \* each worker's local `flag`, what its last q.pop(func)
                   \* returned: "true", "false", or "none" outside its scope
    cpc,           \* each client's position in submit / ~ThreadPool
    cjob,          \* each client's task_ptr in submit
    njobs,         \* the number of packaged_tasks made so far
    fut,           \* each job's shared state (the std::future's view)
    sentinel,      \* the job the destructor submitted, or NoJob
    joined,        \* the destructor's progress through `for (auto& t : threads)`
    barrier,       \* the barrier scenario's gate: "none", "closed" or "open"
    pushed,        \* history: the jobs in the order q.push appended them
    popped,        \* history: the jobs in the order q.pop removed them
    writes         \* history: how often each job's shared state was written

vars == <<threads, is_shut_down, q, q_m_unique, q_m_shared, pool_m, cv, wpc,
          func, flag, cpc, cjob, njobs, fut, sentinel, joined, barrier,
          pushed, popped, writes>>

poolVars == <<threads, is_shut_down, barrier>>
queueVars == <<q, q_m_unique, q_m_shared>>
workerVars == <<wpc, func, flag>>
clientVars == <<cpc, cjob, njobs, sentinel, joined>>
futVars == <<fut, writes>>
histVars == <<pushed, popped>>

-----------------------------------------------------------------------------
(* safe_queue *)

\* A push at the head instead of the tail (a stack, not a queue).
push_front(s, t) == <<t>> \o s

\* q.push(t): append at the tail.
push(s, t) == Append(s, t)

\* The tail element taken for the head (q.back() for q.front()).
back(s) == s[Len(s)]

\* q.front(): the head.
front(s) == Head(s)

\* A pop that forgets q.pop(): the head stays in the queue.
pop_keep(s) == s

\* q.pop(): drop the head.
pop(s) == Tail(s)

\* A push that also waits until some worker is idle (a hand-off).
CanLockUniqueWhenIdle == q_m_unique = NoThread /\ q_m_shared = {} /\ cv # {}

\* unique_lock<shared_mutex> lc(_m) can be taken.
CanLockUnique == q_m_unique = NoThread /\ q_m_shared = {}

\* A shared lock that ignores an exclusive holder.
CanLockSharedAlways == TRUE

\* shared_lock<shared_mutex> lc(_m) can be taken.
CanLockShared == q_m_unique = NoThread

-----------------------------------------------------------------------------
(* the std::future / std::packaged_task shared state *)

\* A get() that does not block.
ReadyAtOnce(j) == TRUE

\* future::get() returns (or rethrows): the shared state is ready.
Ready(j) == fut[j] \in {"value", "exception"}

\* (*task_ptr)(): the callable's outcome is stored, a failure included.
Outcome(b) == IF b = "throws" THEN "exception" ELSE "value"

\* A failure that escapes func() and ends the worker's thread.
AfterCallUncaught(b) == IF b = "throws" THEN "stopped" ELSE "loop"

\* A worker that leaves its loop after the job (a break after func()).
AfterCallExit(b) == "stopped"

\* Where the worker continues after func(): packaged_task catches whatever
\* the callable throws, so the worker always returns to the loop test.
AfterCall(b) == "loop"

-----------------------------------------------------------------------------
(* ThreadPool::ThreadPool *)

\* The state once the constructor has returned: n worker threads, each at
\* the top of worker::operator(), over constructed members.  (As written,
\* threads(n, thread(worker(this))) asks for copies of a std::thread; the
\* model takes what it is written for, n threads running worker(this).)

InitWith(n, gate) ==
    /\ threads = 1..n
    /\ is_shut_down = FALSE
    /\ q = <<>>
    /\ q_m_unique = NoThread
    /\ q_m_shared = {}
    /\ pool_m = NoThread
    /\ cv = {}
    /\ wpc = [i \in 1..n |-> "loop"]
    /\ func = [i \in 1..n |-> NoJob]
    /\ flag = [i \in 1..n |-> "none"]
    /\ cpc = [c \in Clients |-> "idle"]
    /\ cjob = [c \in Clients |-> NoJob]
    /\ njobs = 0
    /\ fut = [j \in JobIds |-> "none"]
    /\ sentinel = NoJob
    /\ joined = 0
    /\ barrier = gate
    /\ pushed = <<>>
    /\ popped = <<>>
    /\ writes = [j \in JobIds |-> 0]

Init == \E n \in 1..MaxWorkers : InitWith(n, "none")

\* The pool object still exists: its destructor has not returned.
Alive == cpc[Main] # "done"

\* The jobs the clients may still submit.
JobLimit == IF barrier = "none" THEN MaxJobs ELSE ParWorkers
ClientJobs == njobs - (IF sentinel = NoJob THEN 0 ELSE 1)

-----------------------------------------------------------------------------
(* ThreadPool::submit *)

\* make_shared<packaged_task>(func) and the wrapper: a new job with a
\* pending shared state.
MakeTask(c, next) ==
    /\ njobs' = njobs + 1
    /\ cjob' = [cjob EXCEPT ![c] = njobs + 1]
    /\ fut' = [fut EXCEPT ![njobs + 1] = "pending"]
    /\ cpc' = [cpc EXCEPT ![c] = next]

Submit(c) ==
    /\ Alive
    /\ cpc[c] = "idle"
    /\ ClientJobs < JobLimit
    /\ MakeTask(c, "push_lock")
    /\ UNCHANGED <<poolVars, queueVars, pool_m, cv, workerVars, sentinel,
                   joined, writes, histVars>>

\* q.push(wrapper_func): unique_lock<shared_mutex> lc(_m)
PushLock(c) ==
    /\ Alive
    /\ cpc[c] = "push_lock"
    /\ CanLockUnique
    /\ q_m_unique' = c
    /\ cpc' = [cpc EXCEPT ![c] = "push"]
    /\ UNCHANGED <<poolVars, q, q_m_shared, pool_m, cv, workerVars, cjob,
                   njobs, sentinel, joined, futVars, histVars>>

\* q.push(wrapper_func): q.push(t), and the lock's release on return
Push(c) ==
    /\ Alive
    /\ cpc[c] = "push"
    /\ q' = push(q, cjob[c])
    /\ pushed' = Append(pushed, cjob[c])
    /\ q_m_unique' = NoThread
    /\ cpc' = [cpc EXCEPT ![c] = "notify"]
    /\ UNCHANGED <<poolVars, q_m_shared, pool_m, cv, workerVars, cjob, njobs,
                   sentinel, joined, futVars, popped>>

\* cv.notify_one(), called without holding ThreadPool::_m, and the return of
\* the future: one blocked worker, if there is any, leaves the wait.
NotifyOne(c) ==
    /\ Alive
    /\ cpc[c] = "notify"
    /\ \/ /\ cv = {}
          /\ UNCHANGED <<cv, wpc>>
       \/ \E i \in cv :
             /\ cv' = cv \ {i}
             /\ wpc' = [wpc EXCEPT ![i] = "lock"]
    /\ cpc' = [cpc EXCEPT ![c] = IF cjob[c] = sentinel THEN "get" ELSE "idle"]
    /\ UNCHANGED <<poolVars, queueVars, pool_m, func, flag, cjob, njobs,
                   sentinel, joined, futVars, histVars>>

-----------------------------------------------------------------------------
(* ThreadPool::worker::operator() *)

\* A loop that also ends when the last pop found the queue empty.
LoopTestExitOnEmpty(i) ==
    /\ wpc[i] = "loop"
    /\ wpc' = [wpc EXCEPT ![i] = IF is_shut_down \/ flag[i] = "false"
                                    THEN "stopped" ELSE "lock"]
    /\ flag' = [flag EXCEPT ![i] = "none"]
    /\ UNCHANGED <<poolVars, queueVars, pool_m, cv, func, clientVars,
                   futVars, histVars>>

\* while (!pool->is_shut_down): read without any lock; the iteration's
\* locals are out of scope here.  The read races with
\* the destructor's write; it yields the old or the new value, which is the
\* choice between this step coming before or after DtorFlag.
LoopTest(i) ==
    /\ wpc[i] = "loop"
    /\ wpc' = [wpc EXCEPT ![i] = IF is_shut_down THEN "stopped" ELSE "lock"]
    /\ flag' = [flag EXCEPT ![i] = "none"]
    /\ UNCHANGED <<poolVars, queueVars, pool_m, cv, func, clientVars,
                   futVars, histVars>>

\* unique_lock<mutex> lock(pool->_m), and the re-lock when a wait ends
Lock(i) ==
    /\ wpc[i] = "lock"
    /\ pool_m = NoThread
    /\ pool_m' = Worker(i)
    /\ wpc' = [wpc EXCEPT ![i] = "pred"]
    /\ UNCHANGED <<poolVars, queueVars, cv, func, flag, clientVars, futVars,
                   histVars>>

\* the wait predicate's first operand, this->pool->is_shut_down; when it is
\* set the wait returns and the block's end releases ThreadPool::_m
PredFlag(i) ==
    /\ wpc[i] = "pred"
    /\ IF is_shut_down
          THEN /\ pool_m' = NoThread
               /\ wpc' = [wpc EXCEPT ![i] = "pop_lock"]
          ELSE /\ pool_m' = pool_m
               /\ wpc' = [wpc EXCEPT ![i] = "empty_lock"]
    /\ UNCHANGED <<poolVars, queueVars, cv, func, flag, clientVars, futVars,
                   histVars>>

\* the predicate's q.empty(): shared_lock<shared_mutex> lc(_m)
EmptyLock(i) ==
    /\ wpc[i] = "empty_lock"
    /\ CanLockShared
    /\ q_m_shared' = q_m_shared \cup {Worker(i)}
    /\ wpc' = [wpc EXCEPT ![i] = "empty"]
    /\ UNCHANGED <<poolVars, q, q_m_unique, pool_m, cv, func, flag, clientVars,
                   futVars, histVars>>

\* A wait block without its braces: ThreadPool::_m stays locked after the
\* wait has returned, over the pop.
EmptyKeepLock(i) ==
    /\ wpc[i] = "empty"
    /\ q_m_shared' = q_m_shared \ {Worker(i)}
    /\ pool_m' = pool_m
    /\ wpc' = [wpc EXCEPT ![i] = IF q # <<>> THEN "pop_lock" ELSE "wait"]
    /\ UNCHANGED <<poolVars, q, q_m_unique, cv, func, flag, clientVars,
                   futVars, histVars>>

\* the predicate's q.empty(): return q.empty().  A non-empty queue ends the
\* wait and the block's end releases ThreadPool::_m; an empty one sends the
\* worker on to block.
Empty(i) ==
    /\ wpc[i] = "empty"
    /\ q_m_shared' = q_m_shared \ {Worker(i)}
    /\ IF q # <<>>
          THEN /\ pool_m' = NoThread
               /\ wpc' = [wpc EXCEPT ![i] = "pop_lock"]
          ELSE /\ pool_m' = pool_m
               /\ wpc' = [wpc EXCEPT ![i] = "wait"]
    /\ UNCHANGED <<poolVars, q, q_m_unique, cv, func, flag, clientVars, futVars,
                   histVars>>

\* condition_variable::wait(lock): release ThreadPool::_m and block, as one step
Wait(i) ==
    /\ wpc[i] = "wait"
    /\ pool_m' = NoThread
    /\ cv' = cv \cup {i}
    /\ wpc' = [wpc EXCEPT ![i] = "waiting"]
    /\ UNCHANGED <<poolVars, queueVars, func, flag, clientVars, futVars, histVars>>

\* condition_variable::wait may return without any notification
SpuriousWake(i) ==
    /\ wpc[i] = "waiting"
    /\ i \in cv
    /\ cv' = cv \ {i}
    /\ wpc' = [wpc EXCEPT ![i] = "lock"]
    /\ UNCHANGED <<poolVars, queueVars, pool_m, func, flag, clientVars, futVars,
                   histVars>>

\* pool->q.pop(func): unique_lock<shared_mutex> lc(_m)
PopLock(i) ==
    /\ wpc[i] = "pop_lock"
    /\ CanLockUnique
    /\ q_m_unique' = Worker(i)
    /\ wpc' = [wpc EXCEPT ![i] = "pop"]
    /\ UNCHANGED <<poolVars, q, q_m_shared, pool_m, cv, func, flag, clientVars,
                   futVars, histVars>>

\* A pop that throws the job away once the pool is shutting down.
PopDiscardOnShutdown(i) ==
    /\ wpc[i] = "pop"
    /\ q_m_unique' = NoThread
    /\ IF q = <<>> \/ is_shut_down
          THEN /\ wpc' = [wpc EXCEPT ![i] = "loop"]
               /\ flag' = [flag EXCEPT ![i] = "false"]
               /\ q' = IF q = <<>> THEN q ELSE Tail(q)
               /\ UNCHANGED <<func, histVars>>
          ELSE /\ func' = [func EXCEPT ![i] = Head(q)]
               /\ flag' = [flag EXCEPT ![i] = "true"]
               /\ q' = Tail(q)
               /\ popped' = Append(popped, Head(q))
               /\ pushed' = pushed
               /\ wpc' = [wpc EXCEPT ![i] = "run"]
    /\ UNCHANGED <<poolVars, q_m_shared, pool_m, cv, clientVars, futVars>>

\* pool->q.pop(func): the body, and the lock's release on return
Pop(i) ==
    /\ wpc[i] = "pop"
    /\ q_m_unique' = NoThread
    /\ IF q = <<>>
          THEN /\ wpc' = [wpc EXCEPT ![i] = "loop"]
               /\ flag' = [flag EXCEPT ![i] = "false"]
               /\ UNCHANGED <<q, func, histVars>>
          ELSE /\ func' = [func EXCEPT ![i] = front(q)]
               /\ flag' = [flag EXCEPT ![i] = "true"]
               /\ q' = pop(q)
               /\ popped' = Append(popped, front(q))
               /\ pushed' = pushed
               /\ wpc' = [wpc EXCEPT ![i] = "run"]
    /\ UNCHANGED <<poolVars, q_m_shared, pool_m, cv, clientVars, futVars>>

\* What a job's callable may do when it is called: an input of the run.
\* submit's closure holds the callable by reference (&f), so by the time a
\* worker calls it the caller's object may be gone and either outcome is
\* possible whatever the caller wrote; the destructor's sentinel []() {}
\* reads no state of its own and can only return.
Bodies(j) == IF j = sentinel THEN {"returns"} ELSE {"returns", "throws"}

\* if (flag) func(): the job runs to its end and its outcome is stored in
\* the shared state.  A job of the barrier scenario returns only once the
\* gate is open.
Call(i) ==
    /\ wpc[i] = "run"
    /\ barrier # "closed"
    /\ \E b \in Bodies(func[i]) :
          /\ fut' = [fut EXCEPT ![func[i]] = Outcome(b)]
          /\ wpc' = [wpc EXCEPT ![i] = AfterCall(b)]
    /\ writes' = [writes EXCEPT ![func[i]] = @ + 1]
    /\ func' = [func EXCEPT ![i] = NoJob]
    /\ UNCHANGED <<poolVars, queueVars, pool_m, cv, flag, clientVars, histVars>>

WorkerStep(i) ==
    /\ i \in threads
    /\ \/ LoopTest(i)
       \/ Lock(i)
       \/ PredFlag(i)
       \/ EmptyLock(i)
       \/ Empty(i)
       \/ Wait(i)
       \/ PopLock(i)
       \/ Pop(i)
       \/ Call(i)

-----------------------------------------------------------------------------
(* ThreadPool::~ThreadPool *)

\* A join that does not wait (a detach).
JoinedAtOnce(i) == TRUE

\* t.joinable() && t.join() returns: the worker's thread has ended.
Joined(i) == wpc[i] = "stopped"

\* auto f = submit([]() {}): the sentinel's task; the push and the
\* notify_one are submit's own steps (PushLock, Push, NotifyOne)
DtorSubmit ==
    /\ cpc[Main] = "idle"
    /\ sentinel = NoJob
    /\ MakeTask(Main, "push_lock")
    /\ sentinel' = njobs + 1
    /\ UNCHANGED <<poolVars, queueVars, pool_m, cv, workerVars, joined,
                   writes, histVars>>

\* A destructor that does not wait for the sentinel.
DtorGetNoWait ==
    /\ cpc[Main] = "get"
    /\ cpc' = [cpc EXCEPT ![Main] = "flag"]
    /\ UNCHANGED <<poolVars, queueVars, pool_m, cv, workerVars, cjob, njobs,
                   sentinel, joined, futVars, histVars>>

\* f.get(): blocks until the sentinel's shared state is ready
DtorGet ==
    /\ cpc[Main] = "get"
    /\ Ready(sentinel)
    /\ cpc' = [cpc EXCEPT ![Main] = "flag"]
    /\ UNCHANGED <<poolVars, queueVars, pool_m, cv, workerVars, cjob, njobs,
                   sentinel, joined, futVars, histVars>>

\* is_shut_down = true: written without any lock
DtorFlag ==
    /\ cpc[Main] = "flag"
    /\ is_shut_down' = TRUE
    /\ cpc' = [cpc EXCEPT ![Main] = "notify_all"]
    /\ UNCHANGED <<threads, barrier, queueVars, pool_m, cv, workerVars, cjob,
                   njobs, sentinel, joined, futVars, histVars>>

\* cv.notify_all(): every blocked worker leaves the wait
DtorNotifyAll ==
    /\ cpc[Main] = "notify_all"
    /\ cv' = {}
    /\ wpc' = [i \in threads |-> IF i \in cv THEN "lock" ELSE wpc[i]]
    /\ cpc' = [cpc EXCEPT ![Main] = "join"]
    /\ UNCHANGED <<poolVars, queueVars, pool_m, func, flag, cjob, njobs,
                   sentinel, joined, futVars, histVars>>

\* for (auto& t : threads) if (t.joinable()) t.join(): one thread per step,
\* in the vector's order; after the last one the destructor returns
DtorJoin ==
    /\ cpc[Main] = "join"
    /\ joined < Cardinality(threads)
    /\ Joined(joined + 1)
    /\ joined' = joined + 1
    /\ cpc' = [cpc EXCEPT ![Main] =
                  IF joined + 1 = Cardinality(threads) THEN "done" ELSE "join"]
    /\ UNCHANGED <<poolVars, queueVars, pool_m, cv, workerVars, cjob, njobs,
                   sentinel, futVars, histVars>>

ClientStep(c) ==
    \/ PushLock(c)
    \/ Push(c)
    \/ NotifyOne(c)

DtorStep ==
    \/ DtorGet
    \/ DtorFlag
    \/ DtorNotifyAll
    \/ DtorJoin

-----------------------------------------------------------------------------
(* the specifications *)

Next ==
    \/ \E i \in 1..MaxWorkers : WorkerStep(i)
    \/ \E i \in threads : SpuriousWake(i)
    \/ \E c \in Clients : Submit(c)
    \/ \E c \in Clients : ClientStep(c)
    \/ DtorSubmit
    \/ DtorStep

Spec == Init /\ [][Next]_vars

\* Fair scheduling: a thread that can take its next step infinitely often
\* takes it.  Nothing obliges a client to call submit or the owner to
\* destroy the pool, and nothing obliges a wait to end spuriously.
Fairness ==
    /\ \A i \in 1..MaxWorkers : SF_vars(WorkerStep(i))
    /\ \A c \in Clients : SF_vars(ClientStep(c))
    /\ SF_vars(DtorStep)

FairSpec == Spec /\ Fairness

-----------------------------------------------------------------------------
(* the barrier scenario: ParWorkers workers, ParWorkers jobs that each return
   only once the test has seen all of them running and opened the gate *)

InitPar == InitWith(ParWorkers, "closed")

\* Every worker is inside func(), none of the jobs has returned.
AllRunning == barrier = "closed" /\ \A i \in threads : wpc[i] = "run"

\* The test observes all jobs running and releases the barrier.
Release ==
    /\ AllRunning
    /\ barrier' = "open"
    /\ UNCHANGED <<threads, is_shut_down, queueVars, pool_m, cv, workerVars,
                   clientVars, futVars, histVars>>

NextPar ==
    \/ \E i \in 1..ParWorkers : WorkerStep(i)
    \/ \E i \in threads : SpuriousWake(i)
    \/ Submit(Main)
    \/ ClientStep(Main)
    \/ Release

SpecPar == InitPar /\ [][NextPar]_vars

FairnessPar ==
    /\ \A i \in 1..ParWorkers : SF_vars(WorkerStep(i))
    /\ SF_vars(ClientStep(Main))
    /\ SF_vars(Release)

FairSpecPar == SpecPar /\ FairnessPar

-----------------------------------------------------------------------------
(* helpers of the properties *)

\* The position of job j in the history s, 0 when it is not in it.
Pos(s, j) == IF \E k \in 1..Len(s) : s[k] = j
                THEN CHOOSE k \in 1..Len(s) : s[k] = j
                ELSE 0

\* How often job j occurs in s.
Count(s, j) == Cardinality({k \in 1..Len(s) : s[k] = j})

\* Job a's push completed before job b's push.
PushedBefore(a, b) == Pos(pushed, a) > 0 /\ Pos(pushed, a) < Pos(pushed, b)

\* The workers that hold job j in their local func.
Holders(j) == {i \in threads : func[i] = j}

\* The destructor's f.get() has returned.
GetReturned == cpc[Main] \in {"flag", "notify_all", "join", "done"}

-----------------------------------------------------------------------------
(* the properties *)

\* C1: workers dequeue jobs in exactly the order in which submit pushed
\* them: at every moment the sequence of popped jobs is a prefix of the
\* sequence of pushed jobs, for every worker count and interleaving.
C1_FifoDequeue ==
    /\ Len(popped) <= Len(pushed)
    /\ \A k \in 1..Len(popped) : popped[k] = pushed[k]

\* Two workers each hold one of two popped jobs.
C1_Witness ==
    /\ threads = 1..2
    /\ Len(popped) = 2
    /\ func[1] # NoJob
    /\ func[2] # NoJob

\* C2: in a pool that is not being torn down, every job that has been
\* pushed eventually has a ready result handle, under fair scheduling.
C2_AllReady ==
    \A j \in JobIds :
        (Count(q, j) > 0 /\ sentinel = NoJob) ~> (Ready(j) \/ sentinel # NoJob)

\* C3: every submitted job is executed exactly once.  No job is in the
\* queue twice, popped twice or held by two workers; a pushed job is in
\* exactly one place (the queue, one worker's func, or finished); a handle is
\* written at most once, is ready exactly when it was written, and is written
\* by the worker that holds the job and runs it.
C3_Conserved ==
    \A j \in JobIds :
        /\ Count(pushed, j) <= 1
        /\ Count(popped, j) <= 1
        /\ Count(q, j) + Cardinality(Holders(j)) + writes[j] = Count(pushed, j)
        /\ writes[j] <= 1
        /\ Ready(j) <=> writes[j] = 1

C3_WrittenByRunner ==
    \A j \in JobIds :
        (fut[j] = "pending" /\ fut'[j] # "pending") =>
            \E i \in threads :
                /\ wpc[i] = "run"
                /\ func[i] = j
                /\ func'[i] = NoJob
                /\ Count(popped, j) = 1

C4_DrainBarrier ==
    (GetReturned \/ is_shut_down) =>
        \A j \in JobIds : PushedBefore(j, sentinel) => Count(popped, j) = 1

\* The get has returned after a job that was pushed before the sentinel.
C4_Witness ==
    /\ cpc[Main] = "flag"
    /\ \E j \in JobIds : PushedBefore(j, sentinel)

\* C5: when the destructor returns, every worker has stopped: none waits,
\* pops or runs a job, and every dequeued job has finished.
C5_AllStopped ==
    cpc[Main] = "done" =>
        /\ \A i \in threads : wpc[i] = "stopped" /\ func[i] = NoJob
        /\ cv = {}
        /\ \A k \in 1..Len(popped) : Ready(popped[k])

\* The destructor of a two-worker pool has returned after two jobs ran.
C5_Witness ==
    /\ cpc[Main] = "done"
    /\ threads = 1..2
    /\ Len(popped) = 2

\* C6: no job is still sitting in the queue when all workers have stopped
\* and the pool is destroyed: every pushed job has been dequeued and run,
\* whichever thread pushed it and whenever.
C6_NoJobLeft ==
    cpc[Main] = "done" =>
        /\ q = <<>>
        /\ \A k \in 1..Len(pushed) : Ready(pushed[k])

\* C7: teardown always completes: once the destructor has begun, under fair
\* scheduling it eventually returns.
C7_TeardownCompletes == (sentinel # NoJob) ~> (cpc[Main] = "done")

\* C8: a job whose callable fails stores the failure in its own handle and
\* does not stop the worker: the step that stores it takes the worker back
\* to the loop test and touches no other handle, not the queue, not the
\* shutdown flag, and no other worker.
C8_Step ==
    \A i \in threads :
        (/\ wpc[i] = "run"
         /\ fut[func[i]] = "pending"
         /\ fut'[func[i]] = "exception") =>
            /\ wpc'[i] = "loop"
            /\ \A k \in threads \ {i} : wpc'[k] = wpc[k]
            /\ \A j \in JobIds \ {func[i]} : fut'[j] = fut[j]
            /\ q' = q
            /\ is_shut_down' = is_shut_down

C8_FailureContained == [][C8_Step]_vars

\* The only worker ran a job that failed and then completed the next one.
C8_Witness ==
    /\ threads = 1..1
    /\ Len(pushed) = 2
    /\ fut[pushed[1]] = "exception"
    /\ fut[pushed[2]] = "value"

\* C9: with one worker, jobs run one at a time in submission order: a job
\* is not dequeued before every job pushed before it has finished, and its
\* handle is not ready before theirs.
C9_Serial ==
    Cardinality(threads) = 1 =>
        \A a \in JobIds, b \in JobIds :
            PushedBefore(a, b) =>
                /\ Count(popped, b) > 0 => Ready(a)
                /\ Ready(b) => Ready(a)

\* The only worker runs the second job after the first has finished.
C9_Witness ==
    /\ threads = 1..1
    /\ Len(pushed) = 2
    /\ wpc[1] = "run"
    /\ func[1] = pushed[2]
    /\ Ready(pushed[1])

\* C10: with ParWorkers workers and ParWorkers submitted jobs that each
\* block until all are running, every fair execution reaches a state in
\* which all the jobs are running at once, one on each worker, before any
\* of them completes.
C10_AllRunTogether == (Len(pushed) = ParWorkers) ~> AllRunning

\* A client is inside submit: between making the task and returning.
InSubmit(c) == cpc[c] \in {"push_lock", "push", "notify"}

\* The threads that hold safe_queue::_m, exclusively or shared.
QueueLockHolders ==
    (IF q_m_unique = NoThread THEN {} ELSE {q_m_unique}) \cup q_m_shared

\* Thread t is inside a queue operation and its next step ends it.
InQueueOp(t) ==
    \/ \E i \in threads : /\ t = Worker(i)
                          /\ wpc[i] \in {"empty", "pop"}
                          /\ ENABLED WorkerStep(i)
    \/ /\ t \in Clients
       /\ cpc[t] = "push"
       /\ ENABLED ClientStep(t)

\* C11 as claimed: submit never depends on a worker making progress: a
\* client inside submit can take its next step in every pool state, unless
\* another submitter holds the queue's lock.
C11_NeverWaitsForWorker ==
    \A c \in Clients :
        (Alive /\ InSubmit(c)) =>
            \/ ENABLED ClientStep(c)
            \/ QueueLockHolders \cap Clients # {}

\* C11 as amended: submit never waits on the condition variable, for an idle
\* worker or for a job to finish; it can wait only to take the queue's lock,
\* and whoever holds that lock is inside q.empty(), q.pop() or q.push() and
\* releases it at its next step.
C11_WaitsOnlyForQueueLock ==
    \A c \in Clients :
        (Alive /\ InSubmit(c)) =>
            \/ ENABLED ClientStep(c)
            \/ /\ cpc[c] = "push_lock"
               /\ QueueLockHolders # {}
               /\ \A t \in QueueLockHolders : InQueueOp(t)

\* A submit waits for the queue's lock while a worker is inside q.pop().
C11_Witness ==
    /\ cpc[Other] = "push_lock"
    /\ \E i \in threads : q_m_unique = Worker(i) /\ wpc[i] = "pop"

\* C12 as claimed: a worker reaches Stopped only with the shutdown flag set
\* and its own pop having just yielded empty, and never while the queue is
\* non-empty.
C12_StopStepClaimed ==
    \A i \in threads :
        (wpc[i] # "stopped" /\ wpc'[i] = "stopped") =>
            /\ is_shut_down
            /\ flag[i] = "false"
            /\ q = <<>>

C12_StopStep ==
    \A i \in threads :
        (wpc[i] # "stopped" /\ wpc'[i] = "stopped") =>
            /\ wpc[i] = "loop"
            /\ is_shut_down
            /\ func[i] = NoJob
            /\ fut' = fut
            /\ q' = q

WakePredicate == is_shut_down \/ q # <<>>

\* C13: no missed wakeup: a worker blocked on the condition variable while
\* the wake predicate is true is roused (or the predicate turns false
\* again), under fair scheduling.
C13_NoMissedWakeup ==
    \A i \in 1..MaxWorkers :
        (i \in cv /\ WakePredicate) ~> (i \notin cv \/ ~WakePredicate)

\* C14: every read and every write of the shutdown flag is made by a
\* thread that holds ThreadPool::_m: the worker's loop test, the wait
\* predicate's read and the destructor's write.
C14_Step ==
    /\ (is_shut_down' # is_shut_down) => pool_m = Main
    /\ \A i \in threads :
          (wpc[i] \in {"loop", "pred"} /\ wpc'[i] # wpc[i]) =>
              pool_m = Worker(i)

C14_FlagAccessLocked == [][C14_Step]_vars

\* C15 as claimed: no thread ever holds ThreadPool::_m and safe_queue::_m
\* at the same time.
C15_NoLockNesting == \A t \in QueueLockHolders : pool_m # t

\* C15 as amended: the queue's lock is never held exclusively together with
\* the wait lock, and a worker has released the wait lock before it pops;
\* the one nesting is the wait predicate's q.empty(), which takes the
\* queue's lock shared while the worker holds the wait lock.  No thread
\* takes the wait lock while it holds the queue's lock.
C15_OnlyEmptyNests ==
    /\ pool_m \notin Clients
    /\ q_m_unique = NoThread \/ pool_m # q_m_unique
    /\ \A i \in threads :
          /\ Worker(i) \in q_m_shared <=> wpc[i] = "empty"
          /\ wpc[i] = "empty" => pool_m = Worker(i)
          /\ wpc[i] \in {"loop", "lock", "pop_lock", "pop", "run", "stopped"}
                => pool_m # Worker(i)
          /\ wpc[i] = "lock" => Worker(i) \notin QueueLockHolders

\* A worker inside the predicate's q.empty() holds both locks.
C15_Witness ==
    \E i \in threads : pool_m = Worker(i) /\ Worker(i) \in q_m_shared

\* C16: a job that a worker has popped is always executed to completion,
\* also when the shutdown flag is already set at the pop: a pop on a
\* non-empty queue takes the worker into func() with the head job whatever
\* the flag says, the worker can always go on to run it, and it leaves
\* func() only with the job's handle written, to re-check the exit condition
\* at the loop test.
C16_Running ==
    \A i \in threads :
        wpc[i] = "run" =>
            /\ func[i] # NoJob
            /\ fut[func[i]] = "pending"
            /\ flag[i] = "true"
            /\ ENABLED Call(i)

C16_Step ==
    \A i \in threads :
        /\ (wpc[i] = "pop" /\ q # <<>> /\ wpc'[i] # "pop") =>
              (wpc'[i] = "run" /\ func'[i] = Head(q))
        /\ (wpc[i] = "run" /\ wpc'[i] # "run") =>
              (wpc'[i] = "loop" /\ fut'[func[i]] \in {"value", "exception"})
        /\ (wpc[i] # "loop" /\ wpc'[i] = "stopped") => wpc[i] = "stopped"

C16_PoppedJobRuns == []C16_Running /\ [][C16_Step]_vars

\* A worker is inside q.pop() on a non-empty queue with the flag set.
C16_Witness ==
    \E i \in threads : wpc[i] = "pop" /\ q # <<>> /\ is_shut_down

\* C17: when several workers wake for a single job, at most one of them
\* pops it; every other worker's pop yields empty: it takes nothing, writes
\* no handle, and while the shutdown flag is not set the worker goes on to
\* the wait block again, without executing anything and without stopping.
C17_OnePopper ==
    \A j \in JobIds :
        /\ Cardinality(Holders(j)) <= 1
        /\ Count(popped, j) <= 1

C17_Step ==
    \A i \in threads :
        /\ (wpc[i] = "pop" /\ q = <<>> /\ wpc'[i] # "pop") =>
              /\ wpc'[i] = "loop"
              /\ flag'[i] = "false"
              /\ func'[i] = NoJob
              /\ UNCHANGED <<q, fut, popped, writes>>
        /\ (wpc[i] = "loop" /\ ~is_shut_down /\ wpc'[i] # "loop") =>
              wpc'[i] = "lock"
        /\ (wpc[i] # "run" /\ wpc'[i] = "run") => (wpc[i] = "pop" /\ q # <<>>)

C17_LosersWaitAgain == []C17_OnePopper /\ [][C17_Step]_vars

\* Two workers, one job and no teardown: one worker took the job, the
\* other's pop came back empty.
C17_Witness ==
    /\ sentinel = NoJob
    /\ Len(pushed) = 1
    /\ \E i \in threads, k \in threads :
          /\ i # k
          /\ func[i] = pushed[1]
          /\ wpc[k] = "loop"
          /\ flag[k] = "false"

\* Every worker is running a job, none waits, and job j is in the queue.
C18_SubmittedWhileBusy(j) ==
    /\ threads # {}
    /\ \A i \in threads : wpc[i] = "run"
    /\ cv = {}
    /\ Count(q, j) = 1

\* C18: a job submitted while every worker is running a job is not lost:
\* under fair scheduling a worker dequeues it once it has finished its
\* current job, without another submit or notification.
C18_NotLost ==
    \A j \in JobIds : C18_SubmittedWhileBusy(j) ~> (Count(popped, j) = 1)

\* C19: the queue's lock is held either exclusively, by one push or pop and
\* by no empty() reader, or by empty() readers only; a push or pop never
\* overlaps another queue operation, and the queue changes only under the
\* exclusive lock.
C19_Discipline ==
    /\ q_m_unique # NoThread => q_m_shared = {}
    /\ q_m_shared \cap Clients = {}
    /\ \A i \in threads :
          /\ q_m_unique = Worker(i) <=> wpc[i] = "pop"
          /\ Worker(i) \in q_m_shared <=> wpc[i] = "empty"
    /\ \A c \in Clients : q_m_unique = c <=> cpc[c] = "push"
    /\ Cardinality({i \in threads : wpc[i] = "pop"}
                   \cup {c \in Clients : cpc[c] = "push"}) <= 1
    /\ (\E i \in threads : wpc[i] = "pop") \/ (\E c \in Clients : cpc[c] = "push")
          => \A i \in threads : wpc[i] # "empty"

C19_Step == q' # q => (q_m_unique # NoThread /\ q_m_shared = {})

C19_QueueLock == []C19_Discipline /\ [][C19_Step]_vars

\* A push holds the lock while a worker is about to call empty() or pop().
C19_Witness ==
    /\ q_m_unique \in Clients
    /\ \E i \in threads : wpc[i] \in {"empty_lock", "pop_lock"}

\* C20: the drain barrier is not a completion barrier: the destructor's
\* f.get() can return while a job pushed and dequeued before the sentinel is
\* still running (C20_Witness); that happens only with two or more workers,
\* and the job is then inside func() on some worker.
C20_NotCompletionBarrier ==
    GetReturned =>
        \A j \in JobIds :
            (PushedBefore(j, sentinel) /\ ~Ready(j)) =>
                /\ Cardinality(threads) >= 2
                /\ \E i \in threads : wpc[i] = "run" /\ func[i] = j

\* f.get() has returned and an earlier job is still running.
C20_Witness ==
    /\ GetReturned
    /\ Ready(sentinel)
    /\ Cardinality(threads) >= 2
    /\ \E j \in JobIds, i \in threads :
          /\ PushedBefore(j, sentinel)
          /\ Count(popped, j) = 1
          /\ ~Ready(j)
          /\ wpc[i] = "run"
          /\ func[i] = j

=============================================================================
